---- MODULE Spec2Model ----
(***************************************************************************)
(* redAsset: filtering of forward-DNS records and certificate-transparency *)
(* names against an allow list, a deny list and a set of IP prefixes       *)
(* (src/main.go).                                                          *)
(*                                                                         *)
(* Strings are sequences of characters, DNS values are sequences of bits,  *)
(* an IP address is a number of AddrBits bits and a network is a base      *)
(* address with the number of leading one bits of its mask.                *)
(***************************************************************************)
EXTENDS Integers, Sequences, FiniteSets, TLC

(* ------------------------------ bounds -------------------------------- *)

\* Longest host name of the predicate's inputs.
MaxLen == 3
\* Longest allow list and deny list of the predicate's inputs.
MaxList == 2
\* Longest IP-prefix list of the predicate's inputs.
MaxIps == 1
\* Width of an IP address.
AddrBits == 2

(* ------------------------------ strings ------------------------------- *)

Chars == {"a", "."}

RECURSIVE SeqsUpTo(_, _)
SeqsUpTo(S, n) ==
  IF n = 0 THEN {<<>>}
  ELSE LET shorter == SeqsUpTo(S, n - 1)
       IN  shorter \cup {Append(s, c) : s \in {t \in shorter : Len(t) = n - 1}, c \in S}

\* strings.HasSuffix(s, suffix)
HasSuffix(s, suffix) ==
  /\ Len(s) >= Len(suffix)
  /\ SubSeq(s, Len(s) - Len(suffix) + 1, Len(s)) = suffix

(* ------------------------------ addresses ----------------------------- *)

RECURSIVE Pow2(_)
Pow2(n) == IF n = 0 THEN 1 ELSE 2 * Pow2(n - 1)

RECURSIVE BitsToNat(_)
BitsToNat(bits) ==
  IF bits = <<>> THEN 0
  ELSE 2 * BitsToNat(SubSeq(bits, 1, Len(bits) - 1)) + bits[Len(bits)]

\* net.ParseIP: the address a value denotes, or nil when the value is not
\* an address (an empty value, an alias).
ParseIP(value) ==
  IF Len(value) = AddrBits
  THEN [ok |-> TRUE, ip |-> BitsToNat(value)]
  ELSE [ok |-> FALSE, ip |-> 0]

\* (*net.IPNet).Contains: false for nil, otherwise the masked address is the
\* network's base address.
Contains(ipnet, entryIp) ==
  /\ entryIp.ok
  /\ entryIp.ip \div Pow2(AddrBits - ipnet.ones) = ipnet.ip \div Pow2(AddrBits - ipnet.ones)

\* The network of mask length ones that holds addr.
Network(addr, ones) ==
  [ip |-> (addr \div Pow2(AddrBits - ones)) * Pow2(AddrBits - ones), ones |-> ones]

(* ------------------------------ predicate ----------------------------- *)

\* type DNSEntry
DNSEntry(name, value) == [Name |-> name, Value |-> value]

\* func isAllowed
isAllowed(allowed, domain) ==
  \E i \in 1..Len(allowed) : HasSuffix(domain, allowed[i])

\* isValidResult with the address check final: an entry whose address is in
\* no prefix is refused without a look at its name.
isValidResultNoFallThrough(dnsentry, allowed, blacklist, ips) ==
  LET entryIp == ParseIP(dnsentry.Value)
  IN  IF Len(ips) > 0
        THEN \E i \in 1..Len(ips) : Contains(ips[i], entryIp)
      ELSE IF Len(allowed) > 0 /\ ~isAllowed(allowed, dnsentry.Name)
        THEN FALSE
      ELSE IF Len(blacklist) > 0 /\ isAllowed(blacklist, dnsentry.Name)
        THEN FALSE
      ELSE TRUE

\* func isValidResult
isValidResult(dnsentry, allowed, blacklist, ips) ==
  LET entryIp == ParseIP(dnsentry.Value)
  IN  IF Len(ips) > 0 /\ \E i \in 1..Len(ips) : Contains(ips[i], entryIp)
        THEN TRUE
      ELSE IF Len(ips) > 0 /\ Len(allowed) <= 0
        THEN FALSE
      ELSE IF Len(allowed) > 0 /\ ~isAllowed(allowed, dnsentry.Name)
        THEN FALSE
      ELSE IF Len(blacklist) > 0 /\ isAllowed(blacklist, dnsentry.Name)
        THEN FALSE
      ELSE TRUE

(* ------------------------------ inputs -------------------------------- *)

\* Longest -domains file, in lines.
MaxLines == 2
\* Longest -bdomains file, in lines.
MaxDenyLines == 1
\* Longest bulk dataset, in lines.
MaxRecs == 1
\* Most names in one certificate-transparency response.
MaxNames == 1

TopAddr == Pow2(AddrBits) - 1
TopBits == [i \in 1..AddrBits |-> 1]
LowBits == [i \in 1..AddrBits |-> 0]

\* A line of a domain file: a CIDR network or a domain suffix.
DomainLine(d) == [cidr |-> FALSE, dom |-> d, net |-> Network(0, 0)]
CidrLine(n) == [cidr |-> TRUE, dom |-> <<>>, net |-> n]
DomainLines == {DomainLine(<<"a">>), CidrLine(Network(TopAddr, 1))}

\* The value of -domains or -bdomains: not given (""), or a path to a file
\* that can be read or not.
NoFlag == [given |-> FALSE, readable |-> FALSE, lines |-> <<>>]
FlagValues(n) ==
  {NoFlag, [given |-> TRUE, readable |-> FALSE, lines |-> <<>>]}
    \cup {[given |-> TRUE, readable |-> TRUE, lines |-> l] : l \in SeqsUpTo(DomainLines, n)}

Args ==
  [file : BOOLEAN, domains : FlagValues(MaxLines), bdomains : FlagValues(MaxDenyLines),
   catransoff : BOOLEAN]

\* A line of the bulk dataset: a serialized record, or a line that does not
\* parse.
RecordLine(e) == [parses |-> TRUE, entry |-> e]
BadLine == [parses |-> FALSE, entry |-> DNSEntry(<<>>, <<>>)]
BulkLines ==
  {RecordLine(DNSEntry(<<"a", ".", "a">>, TopBits)), RecordLine(DNSEntry(<<"a", ".">>, LowBits)), BadLine}
BulkFiles == SeqsUpTo(BulkLines, MaxRecs)

\* What one request to crt.sh can come to.
CtNames == {<<"a", ".", "a">>}
Response(kind, names) == [kind |-> kind, names |-> names]
Responses ==
  {Response(k, <<>>) : k \in {"neterr", "readerr", "badjson"}}
    \cup {Response("ok", n) : n \in SeqsUpTo(CtNames, MaxNames)}

\* parseDomainFile: the domain lines and the CIDR lines of a file, or an
\* error.
parseDomainFile(f) ==
  LET doms == SelectSeq(f.lines, LAMBDA l : ~l.cidr)
      nets == SelectSeq(f.lines, LAMBDA l : l.cidr)
  IN  [err |-> ~f.readable,
       domains |-> [i \in 1..Len(doms) |-> doms[i].dom],
       ips |-> [i \in 1..Len(nets) |-> nets[i].net]]

\* parseDnsHosts: the records of the lines that parse, in file order.
parseDnsHosts(f) ==
  LET good == SelectSeq(f, LAMBDA l : l.parses)
  IN  [i \in 1..Len(good) |-> good[i].entry]

(* ------------------------------ state --------------------------------- *)

VARIABLES
  args,              \* the command line
  pcMain,            \* main's position
  status,            \* "running", or how the process ended
  allowedDomains, blacklistDomains, ips,   \* main's lists
  wg,                \* sync.WaitGroup counter
  count, valid,      \* the package-level counters
  out,               \* standard output: one element per printed name
  finished,          \* number of "Finished." log lines
  pcB, recs, pulled, tmpB,               \* the parseFDNS goroutine
  pcC, idx, bodyDomain, j, tmpC, ctResp, \* the queryCATransparency goroutine
  evals,             \* calls of isValidResult made by each driver
  pred               \* one call of the predicate on its own: inputs and results

vars == <<args, pcMain, status, allowedDomains, blacklistDomains, ips, wg, count,
          valid, out, finished, pcB, recs, pulled, tmpB, pcC, idx, bodyDomain, j,
          tmpC, ctResp, evals, pred>>

progVars == <<pcMain, status, allowedDomains, blacklistDomains, ips, wg, count, valid,
              out, finished, pcB, recs, pulled, tmpB, pcC, idx, bodyDomain, j, tmpC,
              ctResp, evals>>
bulkVars == <<pcB, recs, pulled, tmpB>>
ctVars == <<pcC, idx, bodyDomain, j, tmpC, ctResp>>

\* var count = 1
CountInit == 1
\* var valid = 0
ValidInit == 0

\* The state of the process when main is entered.
ProgInit ==
  /\ pcMain = "flags"
  /\ status = "running"
  /\ allowedDomains = <<>>
  /\ blacklistDomains = <<>>
  /\ ips = <<>>
  /\ wg = 0
  /\ count = CountInit
  /\ valid = ValidInit
  /\ out = <<>>
  /\ finished = 0
  /\ pcB = "idle" /\ recs = <<>> /\ pulled = 0 /\ tmpB = 0
  /\ pcC = "idle" /\ idx = 1 /\ bodyDomain = <<>> /\ j = 1 /\ tmpC = 0 /\ ctResp = <<>>
  /\ evals = [bulk |-> 0, ct |-> 0]

\* The inputs of a call of the predicate on its own.
Names == SeqsUpTo(Chars, MaxLen)
Values == {<<>>} \cup {v \in SeqsUpTo({0, 1}, AddrBits) : Len(v) = AddrBits}
PredDomains == {<<"a">>, <<".", "a">>}
PredNets == {Network(0, 1), Network(TopAddr, 1), Network(TopAddr, AddrBits)}
PredInputs ==
  [entry : {DNSEntry(n, v) : n \in Names, v \in Values},
   allowed : SeqsUpTo(PredDomains, MaxList),
   blacklist : SeqsUpTo(PredDomains, MaxList),
   ips : SeqsUpTo(PredNets, MaxIps)]

NoCall == [entry |-> DNSEntry(<<>>, <<>>), allowed |-> <<>>, blacklist |-> <<>>, ips |-> <<>>,
           validCalled |-> FALSE, valid |-> FALSE, allowedCalled |-> FALSE, isAllowed |-> FALSE]
NoArgs == [file |-> FALSE, domains |-> NoFlag, bdomains |-> NoFlag, catransoff |-> TRUE]

Init ==
  /\ args \in Args
  /\ pred = NoCall
  /\ ProgInit

(* ------------------------------ main ---------------------------------- *)

\* if *parseFile == "" { usage; os.Exit(1) }
Usage ==
  /\ status = "running" /\ pcMain = "flags"
  /\ ~args.file
  /\ status' = "usage"
  /\ pcMain' = "exit"
  /\ UNCHANGED <<pred, args, allowedDomains, blacklistDomains, ips, wg, count, valid, out,
                 finished, bulkVars, ctVars, evals>>

\* if *parseDomainFilter != "" { allowedDomains, ips, err = parseDomainFile(..) }
LoadAllow ==
  /\ status = "running" /\ pcMain = "flags"
  /\ args.file
  /\ LET r == parseDomainFile(args.domains)
     IN  IF ~args.domains.given
           THEN /\ pcMain' = "bdomains"
                /\ UNCHANGED <<status, allowedDomains, ips>>
         ELSE IF r.err
           THEN /\ pcMain' = "exit"
                /\ status' = "fatal"
                /\ UNCHANGED <<allowedDomains, ips>>
         ELSE /\ pcMain' = "bdomains"
              /\ allowedDomains' = r.domains
              /\ ips' = r.ips
              /\ UNCHANGED status
  /\ UNCHANGED <<pred, args, blacklistDomains, wg, count, valid, out, finished, bulkVars,
                 ctVars, evals>>

\* if *parseDomainBlacklist != "" { blacklistDomains, ips, err = parseDomainFile(..) }
LoadDeny ==
  /\ status = "running" /\ pcMain = "bdomains"
  /\ LET r == parseDomainFile(args.bdomains)
     IN  IF ~args.bdomains.given
           THEN /\ pcMain' = "spawn"
                /\ UNCHANGED <<status, blacklistDomains, ips>>
         ELSE IF r.err
           THEN /\ pcMain' = "exit"
                /\ status' = "fatal"
                /\ UNCHANGED <<blacklistDomains, ips>>
         ELSE /\ pcMain' = "spawn"
              /\ blacklistDomains' = r.domains
              /\ ips' = r.ips
              /\ UNCHANGED status
  /\ UNCHANGED <<pred, args, allowedDomains, wg, count, valid, out, finished, bulkVars,
                 ctVars, evals>>

\* wg.Add(1); go func() { parseFDNS(..); wg.Done() }()
SpawnBulk ==
  /\ status = "running" /\ pcMain = "spawn"
  /\ wg' = wg + 1
  /\ pcB' = "start"
  /\ pcMain' = "catrans"
  /\ UNCHANGED <<pred, args, status, allowedDomains, blacklistDomains, ips, count, valid, out,
                 finished, recs, pulled, tmpB, ctVars, evals>>

\* if !*useCATrans { wg.Add(1); go func() { queryCATransparency(..); wg.Done() }() }
SpawnCT ==
  /\ status = "running" /\ pcMain = "catrans"
  /\ IF ~args.catransoff
       THEN wg' = wg + 1 /\ pcC' = "start"
       ELSE UNCHANGED <<wg, pcC>>
  /\ pcMain' = "wait"
  /\ UNCHANGED <<pred, args, status, allowedDomains, blacklistDomains, ips, count, valid, out,
                 finished, bulkVars, idx, bodyDomain, j, tmpC, ctResp, evals>>

\* A Wait that returns while one goroutine is still running.
WaitReturnsEarly(n) == n <= 1

\* wg.Wait() returns when the counter is zero.
WaitReturns(n) == n = 0

\* wg.Wait(); log.Println("Finished.")
Finish ==
  /\ status = "running" /\ pcMain = "wait"
  /\ WaitReturns(wg)
  /\ finished' = finished + 1
  /\ pcMain' = "exit"
  /\ status' = "ok"
  /\ UNCHANGED <<pred, args, allowedDomains, blacklistDomains, ips, wg, count, valid, out,
                 bulkVars, ctVars, evals>>

Main == Usage \/ LoadAllow \/ LoadDeny \/ SpawnBulk \/ SpawnCT \/ Finish

(* ------------------------------ parseFDNS ----------------------------- *)

\* The check with the allow list alone looked at.
NoFilterDomainsOnly(allowed, nets) == Len(allowed) <= 0 /\ Len(nets) < 0

\* if len(allowed) <= 0 && len(ips) <= 0 { log.Fatal(..) }
NoFilter(allowed, nets) == Len(allowed) <= 0 /\ Len(nets) <= 0

\* The goroutine starts; parseFDNS refuses to run without a filter (log.Fatal
\* ends the process), otherwise it opens the dataset.
BulkCheck ==
  /\ status = "running" /\ pcB = "start"
  /\ IF NoFilter(allowedDomains, ips)
       THEN /\ status' = "fatal"
            /\ pcB' = "fatal"
            /\ UNCHANGED recs
       ELSE /\ \E f \in BulkFiles : recs' = parseDnsHosts(f)
            /\ pcB' = "loop"
            /\ UNCHANGED status
  /\ UNCHANGED <<pred, args, pcMain, allowedDomains, blacklistDomains, ips, wg, count, valid,
                 out, finished, pulled, tmpB, ctVars, evals>>

\* for dnsentry := range parseDnsHosts(fname): the next record is pulled and
\* evaluated; a match is printed and the increment of valid begins with its
\* read. When the source is exhausted parseFDNS returns and wg.Done() runs.
\* The milestone log line (every 1000000 records) writes no state but the
\* timer tt and is left out.
BulkNext ==
  /\ status = "running" /\ pcB = "loop"
  /\ IF pulled < Len(recs)
       THEN LET dnsentry == recs[pulled + 1]
            IN  /\ pulled' = pulled + 1
                /\ evals' = [evals EXCEPT !.bulk = @ + 1]
                /\ IF isValidResult(dnsentry, allowedDomains, blacklistDomains, ips)
                     THEN /\ out' = Append(out, [src |-> "fdns", dom |-> 0, name |-> dnsentry.Name])
                          /\ tmpB' = valid
                          /\ pcB' = "incr"
                          /\ UNCHANGED count
                     ELSE /\ count' = count + 1
                          /\ UNCHANGED <<out, tmpB, pcB>>
                /\ UNCHANGED wg
       ELSE /\ pcB' = "done"
            /\ wg' = wg - 1
            /\ UNCHANGED <<pulled, evals, out, tmpB, count>>
  /\ UNCHANGED <<pred, args, pcMain, status, allowedDomains, blacklistDomains, ips, valid,
                 finished, recs, ctVars>>

\* valid++ (its write), then count++
BulkIncr ==
  /\ status = "running" /\ pcB = "incr"
  /\ valid' = tmpB + 1
  /\ count' = count + 1
  /\ pcB' = "loop"
  /\ UNCHANGED <<pred, args, pcMain, status, allowedDomains, blacklistDomains, ips, wg, out,
                 finished, recs, pulled, tmpB, ctVars, evals>>

Bulk == BulkCheck \/ BulkNext \/ BulkIncr

(* ------------------------------ queryCATransparency ------------------- *)

\* json.Unmarshal(body, &bodyDomain), its error dropped: a body that is not
\* JSON leaves the slice as the previous request left it.
Unmarshal(resp, old) == IF resp.kind = "ok" THEN resp.names ELSE old

\* for _, domain := range allowed: one request; a failed request or a failed
\* read of the body moves on to the next domain. After the last domain the
\* function returns and wg.Done() runs.
CtQuery ==
  /\ status = "running" /\ pcC \in {"start", "loop"}
  /\ IF idx <= Len(allowedDomains)
       THEN \E resp \in Responses :
              /\ ctResp' = Append(ctResp, resp)
              /\ IF resp.kind \in {"neterr", "readerr"}
                   THEN /\ idx' = idx + 1
                        /\ pcC' = "loop"
                        /\ UNCHANGED <<bodyDomain, j>>
                   ELSE /\ bodyDomain' = Unmarshal(resp, bodyDomain)
                        /\ j' = 1
                        /\ pcC' = "names"
                        /\ UNCHANGED idx
              /\ UNCHANGED wg
       ELSE /\ pcC' = "done"
            /\ wg' = wg - 1
            /\ UNCHANGED <<idx, bodyDomain, j, ctResp>>
  /\ UNCHANGED <<pred, args, pcMain, status, allowedDomains, blacklistDomains, ips, count, valid,
                 out, finished, bulkVars, tmpC, evals>>

\* for _, d := range bodyDomain: the name is evaluated with no value and no
\* prefixes; a match is printed and the increment of valid begins with its
\* read.
CtName ==
  /\ status = "running" /\ pcC = "names"
  /\ IF j <= Len(bodyDomain)
       THEN /\ evals' = [evals EXCEPT !.ct = @ + 1]
            /\ IF isValidResult(DNSEntry(bodyDomain[j], <<>>), allowedDomains, blacklistDomains, <<>>)
                 THEN /\ out' = Append(out, [src |-> "crt", dom |-> idx, name |-> bodyDomain[j]])
                      /\ tmpC' = valid
                      /\ pcC' = "incr"
                      /\ UNCHANGED j
                 ELSE /\ j' = j + 1
                      /\ UNCHANGED <<out, tmpC, pcC>>
            /\ UNCHANGED idx
       ELSE /\ idx' = idx + 1
            /\ pcC' = "loop"
            /\ UNCHANGED <<j, evals, out, tmpC>>
  /\ UNCHANGED <<pred, args, pcMain, status, allowedDomains, blacklistDomains, ips, wg, count,
                 valid, finished, bulkVars, bodyDomain, ctResp>>

\* valid++ (its write)
CtIncr ==
  /\ status = "running" /\ pcC = "incr"
  /\ valid' = tmpC + 1
  /\ j' = j + 1
  /\ pcC' = "names"
  /\ UNCHANGED <<pred, args, pcMain, status, allowedDomains, blacklistDomains, ips, wg, count,
                 out, finished, bulkVars, idx, bodyDomain, tmpC, ctResp, evals>>

CT == CtQuery \/ CtName \/ CtIncr

(* ------------------------------ specification ------------------------- *)

Next == Main \/ Bulk \/ CT

Spec == Init /\ [][Next]_vars

\* The scheduler runs every goroutine that can run, and every request to
\* crt.sh comes to some end.
FairSpec == Spec /\ WF_vars(Main) /\ WF_vars(Bulk) /\ WF_vars(CT)

(* ------------------------------ the predicate on its own -------------- *)

PredInit ==
  /\ \E in \in PredInputs :
       pred = [NoCall EXCEPT !.entry = in.entry, !.allowed = in.allowed,
                             !.blacklist = in.blacklist, !.ips = in.ips]
  /\ args = NoArgs
  /\ ProgInit

CallIsValidResult ==
  /\ ~pred.validCalled
  /\ pred' = [pred EXCEPT !.validCalled = TRUE,
                          !.valid = isValidResult(pred.entry, pred.allowed, pred.blacklist, pred.ips)]
  /\ UNCHANGED <<args, progVars>>

CallIsAllowed ==
  /\ ~pred.allowedCalled
  /\ pred' = [pred EXCEPT !.allowedCalled = TRUE,
                          !.isAllowed = isAllowed(pred.allowed, pred.entry.Name)]
  /\ UNCHANGED <<args, progVars>>

PredNext == CallIsValidResult \/ CallIsAllowed

PredSpec == PredInit /\ [][PredNext]_vars

(* ------------------------------ properties of the predicate ----------- *)

\* name ends with list entry d
EndsWith(name, d) ==
  /\ Len(name) >= Len(d)
  /\ \A k \in 1..Len(d) : name[Len(name) - Len(d) + k] = d[k]

\* d matches name on whole labels: name is d, or name ends with "." d
LabelMatch(name, d) == name = d \/ EndsWith(name, <<".">> \o d)

\* value is an address inside net
InPrefix(value, net) ==
  /\ Len(value) = AddrBits
  /\ LET size == Pow2(AddrBits - net.ones)
         addr == BitsToNat(value)
     IN  net.ip <= addr /\ addr < net.ip + size

InSomePrefix(value, nets) == \E i \in 1..Len(nets) : InPrefix(value, nets[i])
InSomeList(name, list) == \E i \in 1..Len(list) : EndsWith(name, list[i])

\* C1: when the deny list is non-empty and the entry's Name ends with some
\* deny-list entry, isValidResult returns false, whichever criterion (prefix
\* containment of Value, allow-list match of Name) would admit the entry.
C1_DenyAlwaysWins ==
  (pred.validCalled /\ Len(pred.blacklist) > 0 /\ InSomeList(pred.entry.Name, pred.blacklist))
    => ~pred.valid

\* C2: isAllowed(list, name) holds exactly when some list entry d matches
\* name on whole domain labels: name = d, or name ends with "." followed by d.
C2_WholeLabelSuffix ==
  pred.allowedCalled
    => (pred.isAllowed <=> \E i \in 1..Len(pred.allowed) : LabelMatch(pred.entry.Name, pred.allowed[i]))

\* C3: with a non-empty prefix set, isValidResult returns true for every
\* entry whose Value lies inside some prefix, whatever its Name and the
\* lists; for a Value in no prefix it returns false when the allow list is
\* empty, and otherwise the result of the domain path: Name matches the allow
\* list and, with a non-empty deny list, no deny-list entry.
C3_PrefixShortCircuitAndFallThrough ==
  (pred.validCalled /\ Len(pred.ips) > 0)
    => pred.valid =
         IF InSomePrefix(pred.entry.Value, pred.ips) THEN TRUE
         ELSE IF Len(pred.allowed) = 0 THEN FALSE
         ELSE /\ InSomeList(pred.entry.Name, pred.allowed)
              /\ ~InSomeList(pred.entry.Name, pred.blacklist)

\* C3's case: a Value outside every prefix, a Name the allow list admits and
\* the deny list does not name, and the entry is included.
C3_Witness ==
  /\ pred.validCalled
  /\ Len(pred.ips) > 0
  /\ Len(pred.entry.Value) = AddrBits
  /\ ~InSomePrefix(pred.entry.Value, pred.ips)
  /\ Len(pred.allowed) > 0
  /\ Len(pred.blacklist) > 0
  /\ InSomeList(pred.entry.Name, pred.allowed)
  /\ pred.valid

(* ------------------------------ properties of the program ------------- *)

Range(seq) == {seq[k] : k \in 1..Len(seq)}

\* The names a driver printed, in the order of standard output.
Printed(src) ==
  LET lines == SelectSeq(out, LAMBDA o : o.src = src)
  IN  [k \in 1..Len(lines) |-> lines[k].name]

\* The names of the records that satisfy the predicate, in source order.
Matching ==
  LET hits == SelectSeq(recs, LAMBDA e : isValidResult(e, allowedDomains, blacklistDomains, ips))
  IN  [k \in 1..Len(hits) |-> hits[k].Name]

\* C4: after a bulk scan with the certificate-transparency source disabled,
\* over n records of which m satisfy the predicate, the output is the m
\* matching names in source order, the match counter is m and the processed
\* counter is n.
C4_BulkScanTotals ==
  (args.catransoff /\ pcB = "done")
    => /\ Printed("fdns") = Matching
       /\ Len(out) = Len(Matching)
       /\ valid = Len(Matching)
       /\ count = Len(recs)

BothEmpty == allowedDomains = <<>> /\ ips = <<>>

NothingScanned ==
  /\ recs = <<>> /\ pulled = 0
  /\ evals.bulk = 0 /\ evals.ct = 0
  /\ ctResp = <<>>
  /\ out = <<>> /\ valid = 0
  /\ finished = 0

\* C5 as stated: with the allow list and the prefix set both empty no worker
\* starts, no record is pulled, evaluated or printed and completion is never
\* reported.
C5_FatalBeforeAnyWorkerStarts ==
  BothEmpty => (pcB = "idle" /\ pcC = "idle" /\ NothingScanned)

\* C5: with the allow list and the prefix set both empty, the bulk-file
\* worker ends the run with the fatal configuration error as its first step
\* (the workers are started, and the certificate-transparency worker may run
\* to its end over the empty allow list): no record is pulled, evaluated or
\* printed, no request is made, and completion is never reported.
C5_FatalAtBulkWorkerStart ==
  BothEmpty
    => /\ NothingScanned
       /\ pcB \in {"idle", "start", "fatal"}
       /\ (pcB = "fatal" <=> (status = "fatal" /\ pcMain # "exit"))
       /\ status # "ok"

\* C5's case: both workers were started, the certificate-transparency worker
\* has returned, and the bulk worker has ended the run.
C5_Witness ==
  /\ BothEmpty
  /\ args.bdomains.given /\ blacklistDomains # <<>>
  /\ pcC = "done"
  /\ pcB = "fatal" /\ status = "fatal"

\* C6: a domain whose request or parse fails contributes no printed name,
\* every printed name was returned for the domain it is printed for, and
\* every domain of the allow list is queried.
C6_FailedDomainContributesNothing ==
  /\ \A k \in 1..Len(out) :
       out[k].src = "crt"
         => /\ ctResp[out[k].dom].kind = "ok"
            /\ out[k].name \in Range(ctResp[out[k].dom].names)
  /\ pcC = "done" => Len(ctResp) = Len(allowedDomains)

AllDriversDone == pcB = "done" /\ (args.catransoff \/ pcC = "done")

\* C7: "Finished." is logged only after every enabled driver has completed
\* (the bulk driver always, the certificate-transparency driver unless
\* -catransoff), at most once, and, once the lists are loaded with a
\* non-empty allow list or prefix set, eventually.
C7_FinishedAfterAllDrivers ==
  /\ [](finished > 0 => AllDriversDone)
  /\ [](finished <= 1)
  /\ ((pcMain = "spawn" /\ ~BothEmpty) ~> (finished = 1))

\* C7's case: both drivers ran, printed names, and completion was reported.
C7_Witness ==
  /\ finished = 1
  /\ ~args.catransoff /\ pcC = "done" /\ pcB = "done"
  /\ Printed("fdns") # <<>> /\ Printed("crt") # <<>>

\* C8: when both drivers have completed, the match counter is the number of
\* names the two printed together.
C8_NoLostIncrement ==
  (pcB = "done" /\ pcC = "done") => valid = Len(out)

\* The CIDR lines of a domain file, in file order.
CidrLines(f) ==
  LET nets == SelectSeq(f.lines, LAMBDA l : l.cidr)
  IN  [k \in 1..Len(nets) |-> nets[k].net]

\* C9: the prefix set handed to the bulk scan is the one parsed from the
\* -domains file, whatever the other flags: loading -bdomains leaves it
\* alone.
C9_PrefixesFromDomainsFile ==
  pcB # "idle" => ips = CidrLines(args.domains)

\* No driver is between the evaluation of a record and the end of its
\* iteration.
BetweenRecords == pcB # "incr" /\ pcC # "incr"

\* C10: every record a driver evaluates, bulk-file or certificate-
\* transparency, advances the processed counter by one, so the match
\* counter never exceeds the processed counter.
C10_MatchedAtMostProcessed ==
  /\ valid <= count
  /\ BetweenRecords => evals.bulk + evals.ct <= count

====
